---- MODULE Spec2Model ----
(***************************************************************************)
(* Model of the foodprint estimator backend (src/main.py): the two request *)
(* handlers estimate_text and estimate_image, the tolerant JSON recovery   *)
(* safe_parse_json and the normalisation of the model's output.            *)
(*                                                                         *)
(* Representation.                                                         *)
(*  - A JSON value is a record [t, v]: t is the Python type json.loads     *)
(*    gives it ("null", "bool", "num", "str", "list", "obj"), v its        *)
(*    payload.  An "obj" holds a sequence of [k, v] members.               *)
(*  - A number is a float counted in eighths (1 is 0.125, 20 is 2.5):      *)
(*    eighths and their sums are exact in binary floating point, so the    *)
(*    arithmetic of the handlers is exact here.  A rounded total is an     *)
(*    integer number of hundredths.  NaN and infinities are outside the    *)
(*    number domain.                                                       *)
(*  - The model's raw text is a sequence of lexical tokens [t, v]          *)
(*    (punctuation, number, string, literal, prose word); find, rfind,     *)
(*    slicing and json.loads work on that sequence.  String tokens hold    *)
(*    no brace characters.                                                 *)
(***************************************************************************)
EXTENDS Integers, Sequences, FiniteSets, TLC

VARIABLES
    model,      \* the process-wide handle: "handle" or "null" (main.py:91)
    pc,         \* position of the request in its handler
    endpoint,   \* "text" (POST /estimate), "image" (POST /estimate/image)
    data,       \* data.dish of a text request, as its characters
    content,    \* the bytes image.read() gave an image request
    dish,       \* local `dish` of estimate_text after strip()
    calls,      \* generate_content calls made for the current request
    upstream,   \* outcome of the generate_content call
    resp        \* the response of the current request

vars == <<model, pc, endpoint, data, content, dish, calls, upstream, resp>>

---------------------------------------------------------------------------
(* JSON values as json.loads builds them *)

Null == [t |-> "null", v |-> "null"]
Bool(b) == [t |-> "bool", v |-> b]
Num(n) == [t |-> "num", v |-> n]
Str(s) == [t |-> "str", v |-> s]
List(s) == [t |-> "list", v |-> s]
Obj(members) == [t |-> "obj", v |-> members]
Member(k, val) == [k |-> k, v |-> val]

(* Lexical tokens of a text *)
Punct(c) == [t |-> "punct", v |-> c]
NumTok(n) == [t |-> "num", v |-> n]
StrTok(s) == [t |-> "str", v |-> s]
LitTok(s) == [t |-> "lit", v |-> s]
Word(s) == [t |-> "word", v |-> s]

IsPunct(tk, c) == tk.t = "punct" /\ tk.v = c

---------------------------------------------------------------------------
(* json.dumps: the text of a value, as the upstream model would write it *)

RECURSIVE Encode(_), EncodeElems(_), EncodeMembers(_)

Encode(val) ==
    CASE val.t = "null" -> <<LitTok("null")>>
      [] val.t = "bool" -> <<LitTok(IF val.v THEN "true" ELSE "false")>>
      [] val.t = "num" -> <<NumTok(val.v)>>
      [] val.t = "str" -> <<StrTok(val.v)>>
      [] val.t = "list" -> <<Punct("[")>> \o EncodeElems(val.v) \o <<Punct("]")>>
      [] val.t = "obj" -> <<Punct("{")>> \o EncodeMembers(val.v) \o <<Punct("}")>>

EncodeElems(s) ==
    IF s = <<>> THEN <<>>
    ELSE IF Len(s) = 1 THEN Encode(s[1])
    ELSE Encode(s[1]) \o <<Punct(",")>> \o EncodeElems(Tail(s))

EncodeMembers(s) ==
    IF s = <<>> THEN <<>>
    ELSE LET m == <<StrTok(s[1].k), Punct(":")>> \o Encode(s[1].v)
         IN  IF Len(s) = 1 THEN m ELSE m \o <<Punct(",")>> \o EncodeMembers(Tail(s))

---------------------------------------------------------------------------
(* json.loads: a recursive-descent parse of the whole token sequence *)

ParseFail == [ok |-> FALSE, val |-> Null, pos |-> 0]
ParseOk(val, pos) == [ok |-> TRUE, val |-> val, pos |-> pos]

\* dict semantics: a later member with the same key replaces the earlier one
DictPut(members, k, val) ==
    IF \E i \in 1..Len(members) : members[i].k = k
    THEN [i \in 1..Len(members) |->
            IF members[i].k = k THEN Member(k, val) ELSE members[i]]
    ELSE Append(members, Member(k, val))

RECURSIVE ParseValue(_, _), ParseElems(_, _, _), ParseMembers(_, _, _)
RECURSIVE AfterElem(_, _, _), AfterMember(_, _, _, _)

ParseValue(toks, i) ==
    IF i > Len(toks) THEN ParseFail
    ELSE LET tk == toks[i] IN
         CASE tk.t = "num" -> ParseOk(Num(tk.v), i + 1)
           [] tk.t = "str" -> ParseOk(Str(tk.v), i + 1)
           [] tk.t = "lit" ->
                ParseOk(CASE tk.v = "null" -> Null
                          [] tk.v = "true" -> Bool(TRUE)
                          [] tk.v = "false" -> Bool(FALSE), i + 1)
           [] IsPunct(tk, "[") ->
                IF i + 1 <= Len(toks) /\ IsPunct(toks[i + 1], "]")
                THEN ParseOk(List(<<>>), i + 2)
                ELSE ParseElems(toks, i + 1, <<>>)
           [] IsPunct(tk, "{") ->
                IF i + 1 <= Len(toks) /\ IsPunct(toks[i + 1], "}")
                THEN ParseOk(Obj(<<>>), i + 2)
                ELSE ParseMembers(toks, i + 1, <<>>)
           [] OTHER -> ParseFail

\* the elements of an array from position i on, acc those already read
ParseElems(toks, i, acc) == AfterElem(toks, acc, ParseValue(toks, i))

\* r is the parse of one element: a comma or the closing bracket follows
AfterElem(toks, acc, r) ==
    IF ~r.ok \/ r.pos > Len(toks) THEN ParseFail
    ELSE IF IsPunct(toks[r.pos], ",")
         THEN ParseElems(toks, r.pos + 1, Append(acc, r.val))
    ELSE IF IsPunct(toks[r.pos], "]")
         THEN ParseOk(List(Append(acc, r.val)), r.pos + 1)
    ELSE ParseFail

\* the members of an object from position i on: a key, a colon, a value
ParseMembers(toks, i, acc) ==
    IF i + 1 > Len(toks) \/ toks[i].t # "str" \/ ~IsPunct(toks[i + 1], ":")
    THEN ParseFail
    ELSE AfterMember(toks, acc, toks[i].v, ParseValue(toks, i + 2))

\* r is the parse of the value of key k: a comma or the closing brace follows
AfterMember(toks, acc, k, r) ==
    IF ~r.ok \/ r.pos > Len(toks) THEN ParseFail
    ELSE IF IsPunct(toks[r.pos], ",")
         THEN ParseMembers(toks, r.pos + 1, DictPut(acc, k, r.val))
    ELSE IF IsPunct(toks[r.pos], "}")
         THEN ParseOk(Obj(DictPut(acc, k, r.val)), r.pos + 1)
    ELSE ParseFail

\* r is the parse of the first value of toks: json.loads raises unless it
\* takes the whole text
WholeText(toks, r) ==
    IF r.ok /\ r.pos = Len(toks) + 1 THEN [ok |-> TRUE, val |-> r.val]
    ELSE [ok |-> FALSE, val |-> Null]

\* json.loads(text): the value, or ok = FALSE for the exception
JsonLoads(toks) == WholeText(toks, ParseValue(toks, 1))

---------------------------------------------------------------------------
(* safe_parse_json (main.py:66-78).  Python's None is Null here: the only *)
(* use of the result is `safe_parse_json(text) or {...}`, and JSON null   *)
(* parses to None as well.                                                *)

\* text.find(c): index of the first c, 0-based, -1 if there is none
Find(toks, c) ==
    IF \E i \in 1..Len(toks) : IsPunct(toks[i], c)
    THEN (CHOOSE i \in 1..Len(toks) :
            IsPunct(toks[i], c) /\ \A j \in 1..(i - 1) : ~IsPunct(toks[j], c)) - 1
    ELSE -1

\* text.rfind(c): index of the last c, 0-based, -1 if there is none
RFind(toks, c) ==
    IF \E i \in 1..Len(toks) : IsPunct(toks[i], c)
    THEN (CHOOSE i \in 1..Len(toks) :
            IsPunct(toks[i], c) /\ \A j \in (i + 1)..Len(toks) : ~IsPunct(toks[j], c)) - 1
    ELSE -1

\* text[start : stop], 0-based, stop exclusive
Slice(toks, start, stop) == SubSeq(toks, start + 1, stop)

\* try: return json.loads(...) / except Exception: return None
LoadsOrNone(loaded) == IF loaded.ok THEN loaded.val ELSE Null

\* the except branch (main.py:71-78), start and end the two indices
BetweenBraces(text, start, end) ==
    IF start # -1 /\ end # -1 /\ end > start
    THEN LoadsOrNone(JsonLoads(Slice(text, start, end + 1)))
    ELSE Null

\* whole is json.loads of the whole text
Recover(text, whole) ==
    IF whole.ok THEN whole.val
    ELSE BetweenBraces(text, Find(text, "{"), RFind(text, "}"))

safe_parse_json(text) == Recover(text, JsonLoads(text))

---------------------------------------------------------------------------
(* The Python built-ins the handlers apply to parsed values *)

\* bool(x): the truth value `or` tests
Truthy(val) ==
    CASE val.t = "null" -> FALSE
      [] val.t = "bool" -> val.v
      [] val.t = "num" -> val.v # 0
      [] val.t = "str" -> val.v # ""
      [] val.t = "list" -> val.v # <<>>
      [] val.t = "obj" -> val.v # <<>>

\* type(x).__name__, as it appears in the interpreter's error messages
TypeName(val) ==
    CASE val.t = "null" -> "NoneType"
      [] val.t = "bool" -> "bool"
      [] val.t = "num" -> "float"
      [] val.t = "str" -> "str"
      [] val.t = "list" -> "list"
      [] val.t = "obj" -> "dict"

isinstance_dict(val) == val.t = "obj"

HasKey(d, k) == \E i \in 1..Len(d.v) : d.v[i].k = k

\* d.get(k, default) on a dict
DictGet(d, k, default) ==
    IF HasKey(d, k)
    THEN d.v[CHOOSE i \in 1..Len(d.v) : d.v[i].k = k].v
    ELSE default

\* repr of a float given in eighths: 20 is "2.5", 1 is "0.125", 0 is "0.0"
FracDigits == <<"0", "125", "25", "375", "5", "625", "75", "875">>
Abs(n) == IF n < 0 THEN -n ELSE n
FloatRepr(n) ==
    (IF n < 0 THEN "-" ELSE "") \o ToString(Abs(n) \div 8) \o "."
        \o FracDigits[(Abs(n) % 8) + 1]

\* the floats whose text float() is asked to read back
ReprRange == -80..80

Raise(type, msg) == [ok |-> FALSE, val |-> 0, err |-> msg, type |-> type]
Return(x) == [ok |-> TRUE, val |-> x, err |-> "", type |-> ""]

\* float(x): a number of eighths, or the exception float raises
float(val) ==
    CASE val.t = "num" -> Return(val.v)
      [] val.t = "bool" -> Return(IF val.v THEN 8 ELSE 0)
      [] val.t = "str" ->
            IF \E n \in ReprRange : FloatRepr(n) = val.v
            THEN Return(CHOOSE n \in ReprRange : FloatRepr(n) = val.v)
            ELSE Raise("ValueError",
                       "could not convert string to float: '" \o val.v \o "'")
      [] OTHER ->
            Raise("TypeError",
                  "float() argument must be a string or a real number, not '"
                      \o TypeName(val) \o "'")

\* str(x) for the scalar values a name or a dish can hold; a container's
\* str is its repr, which the model abbreviates to its type
str(val) ==
    CASE val.t = "str" -> val.v
      [] val.t = "null" -> "None"
      [] val.t = "bool" -> IF val.v THEN "True" ELSE "False"
      [] val.t = "num" -> FloatRepr(val.v)
      [] OTHER -> "<" \o TypeName(val) \o ">"

\* round(x, 2) of a float in eighths, in hundredths: x is exact, so this is
\* the nearest hundredth, a tie (an odd number of eighths) going to the even
round2(n) ==
    IF (25 * n) % 2 = 0 THEN (25 * n) \div 2
    ELSE LET lo == (25 * n - 1) \div 2
         IN  IF lo % 2 = 0 THEN lo ELSE lo + 1

RECURSIVE sum_carbon(_)
\* sum(i.carbon_kg for i in ingredients)
sum_carbon(ingredients) ==
    IF ingredients = <<>> THEN 0
    ELSE ingredients[1].carbon_kg + sum_carbon(Tail(ingredients))

---------------------------------------------------------------------------
(* Normalisation: the body of the try block after the upstream call       *)
(* (main.py:125-137 and 171-184).  Each step yields Return(x) or the      *)
(* exception that leaves the try block.                                   *)

\* getattr(response, "text", None) or ""
ResponseText(response) ==
    IF response.hasText THEN response.text ELSE <<>>

\* the literal after `or` at main.py:126 and main.py:172
Fallback(fallbackDish) ==
    Obj(<<Member("dish", Str(fallbackDish)),
          Member("ingredients", List(<<>>)),
          Member("estimated_carbon_kg", Num(0))>>)

\* a or b
Or(a, b) == IF Truthy(a) THEN a ELSE b

\* parsed = safe_parse_json(text) or {...}
Parsed(text, fallbackDish) == Or(safe_parse_json(text), Fallback(fallbackDish))

\* parsed.get(key, default): an AttributeError unless parsed is a dict
ParsedGet(parsed, k, default) ==
    IF isinstance_dict(parsed) THEN Return(DictGet(parsed, k, default))
    ELSE Raise("AttributeError",
               "'" \o TypeName(parsed) \o "' object has no attribute 'get'")

\* (parsed.get("ingredients", []) or [])
IngredientsSource(raw) == Or(raw, List(<<>>))

\* `for it in X`: the items iteration yields, or the TypeError it raises.
\* A str yields its characters and a dict its keys: items that are str.
Iterate(x) ==
    CASE x.t = "list" -> Return(x.v)
      [] x.t = "str" -> Return([i \in 1..Len(x.v) |-> Str("c")])
      [] x.t = "obj" -> Return([i \in 1..Len(x.v) |-> Str(x.v[i].k)])
      [] OTHER -> Raise("TypeError",
                        "'" \o TypeName(x) \o "' object is not iterable")

\* IngredientOut(name=str(it.get("name", "Unknown")),
\*               carbon_kg=float(it.get("carbon_kg", 0.0)))
MakeIngredient(name, c) ==
    IF c.ok THEN Return([name |-> name, carbon_kg |-> c.val]) ELSE c

IngredientOut(it) ==
    MakeIngredient(str(DictGet(it, "name", Str("Unknown"))),
                   float(DictGet(it, "carbon_kg", Num(0))))

RECURSIVE BuildIngredients_unfiltered(_, _)
\* variant with a slip: no isinstance filter, so it.get fails on an item
\* that is no dict
BuildIngredients_unfiltered(items, acc) ==
    IF items = <<>> THEN Return(acc)
    ELSE IF ~isinstance_dict(items[1])
         THEN Raise("AttributeError",
                    "'" \o TypeName(items[1]) \o "' object has no attribute 'get'")
    ELSE IF IngredientOut(items[1]).ok
         THEN BuildIngredients_unfiltered(
                  Tail(items), Append(acc, IngredientOut(items[1]).val))
    ELSE IngredientOut(items[1])

RECURSIVE BuildIngredients(_, _), AddIngredient(_, _, _)
\* the list comprehension: items in order, the non-dict ones skipped, the
\* first exception ending it
BuildIngredients(items, acc) ==
    IF items = <<>> THEN Return(acc)
    ELSE IF ~isinstance_dict(items[1]) THEN BuildIngredients(Tail(items), acc)
    ELSE AddIngredient(Tail(items), acc, IngredientOut(items[1]))

\* one is the IngredientOut of the item before rest, or its exception
AddIngredient(rest, acc, one) ==
    IF one.ok THEN BuildIngredients(rest, Append(acc, one.val)) ELSE one

\* the comprehension over what iteration yields
OverItems(items) ==
    IF items.ok THEN BuildIngredients(items.val, <<>>) ELSE items

\* raw is parsed.get("ingredients", []) or its exception
FromRaw(raw) ==
    IF raw.ok THEN OverItems(Iterate(IngredientsSource(raw.val))) ELSE raw

Ingredients(parsed) == FromRaw(ParsedGet(parsed, "ingredients", List(<<>>)))

\* variant with a slip: a missing total is 0, not the sum
TotalVal_no_sum(parsed, ingredients) ==
    IF DictGet(parsed, "estimated_carbon_kg", Null).t # "null"
    THEN float(DictGet(parsed, "estimated_carbon_kg", Null))
    ELSE Return(0)

\* variant with a slip: `if total` in place of `if total is not None`
TotalVal_truthy(parsed, ingredients) ==
    IF Truthy(DictGet(parsed, "estimated_carbon_kg", Null))
    THEN float(DictGet(parsed, "estimated_carbon_kg", Null))
    ELSE Return(sum_carbon(ingredients))

\* variant with a slip: a total float() rejects falls back to the sum
TotalVal_lenient(parsed, ingredients) ==
    IF DictGet(parsed, "estimated_carbon_kg", Null).t # "null"
        /\ float(DictGet(parsed, "estimated_carbon_kg", Null)).ok
    THEN float(DictGet(parsed, "estimated_carbon_kg", Null))
    ELSE Return(sum_carbon(ingredients))

\* total = parsed.get("estimated_carbon_kg")
\* total_val = float(total) if (total is not None) else sum(...)
FloatOrSum(total, ingredients) ==
    IF total.t # "null" THEN float(total)
    ELSE Return(sum_carbon(ingredients))

TotalVal(parsed, ingredients) ==
    FloatOrSum(DictGet(parsed, "estimated_carbon_kg", Null), ingredients)

\* round(total_val or 0.0, 2)
RoundedTotal(total_val) == round2(IF total_val # 0 THEN total_val ELSE 0)

EstimateOut(d, total, ingredients) ==
    [dish |-> d, estimated_carbon_kg |-> total, ingredients |-> ingredients]

\* main.py:137 once total_val is computed, or its exception
WithTotal(parsed, ingredients, total_val, fallbackDish) ==
    IF total_val.ok
    THEN Return(EstimateOut(str(DictGet(parsed, "dish", Str(fallbackDish))),
                            RoundedTotal(total_val.val),
                            ingredients))
    ELSE total_val

\* main.py:135-137 once the ingredients are built, or their exception
WithIngredients(parsed, ingredients, fallbackDish) ==
    IF ingredients.ok
    THEN WithTotal(parsed, ingredients.val,
                   TotalVal(parsed, ingredients.val), fallbackDish)
    ELSE ingredients

\* main.py:127-137 on the parsed object
NormalizeParsed(parsed, fallbackDish) ==
    WithIngredients(parsed, Ingredients(parsed), fallbackDish)

\* the try block from `text = ...` to `return EstimateOut(...)`
Normalize(response, fallbackDish) ==
    NormalizeParsed(Parsed(ResponseText(response), fallbackDish), fallbackDish)

---------------------------------------------------------------------------
(* Inputs: the requests clients send and the outputs the upstream model   *)
(* can produce.                                                           *)

MaxDishLen == 2         \* longest dish name sent, in characters
MaxIngredients == 2     \* longest ingredients array the upstream model writes

DishChars == {" ", "a"}

SeqsUpTo(S, n) == UNION {[1..k -> S] : k \in 0..n}

\* request bodies of POST /estimate: the characters of data.dish
DishInputs == SeqsUpTo(DishChars, MaxDishLen)

\* uploads of POST /estimate/image: the bytes image.read() returns
ImageInputs == {<<>>, <<255, 216>>}

\* messages of the exceptions generate_content raises
UpstreamErrors == {"429 quota exceeded", "504 deadline exceeded"}

OptMember(k, values) == {<<>>} \cup {<<Member(k, val)>> : val \in values}

\* entries of an ingredients array: mappings with and without their keys,
\* with carbon_kg values of every JSON type, and a bare string
ElementValues ==
    {Obj(c) : c \in OptMember("carbon_kg", {Num(1)})}
    \cup {Obj(<<Member("name", Str("Rice")), Member("carbon_kg", val)>>) :
            val \in {Num(20), Str("abc"), Str("2.5"), Null, Bool(TRUE)}}
    \cup {Str("salt")}

IngredientsValues ==
    {List(s) : s \in SeqsUpTo(ElementValues, MaxIngredients)}
    \cup {Null, Num(5), Num(0), Bool(TRUE), Bool(FALSE), Str("abc"),
          Obj(<<Member("name", Str("Rice"))>>)}

TotalValues ==
    {Null, Num(0), Num(33), Str("abc"), Str(""), Bool(FALSE), List(<<>>)}

DishValues == {Str("Pasta")}

\* the objects the upstream model writes when it follows the instruction
\* in form: keys dish, estimated_carbon_kg, ingredients, each present or not
ObjectValues ==
    {Obj(d \o t \o i) : d \in OptMember("dish", DishValues),
                        t \in OptMember("estimated_carbon_kg", TotalValues),
                        i \in OptMember("ingredients", IngredientsValues)}

\* the objects the upstream model also writes with prose around them
ProseObjects ==
    {Obj(d \o t \o i) :
        d \in OptMember("dish", DishValues),
        t \in OptMember("estimated_carbon_kg", {Num(33), Str("abc")}),
        i \in OptMember("ingredients",
                        {List(s) : s \in SeqsUpTo(ElementValues, 1)} \cup {Num(5)})}

\* JSON texts that are not an object
ScalarValues ==
    {Null, Bool(TRUE), Bool(FALSE), Num(0), Num(42), Str(""), Str("Pasta"),
     List(<<>>), List(<<Num(1)>>)}

Sample == Obj(<<Member("dish", Str("Pasta")),
                Member("ingredients", List(<<Obj(<<Member("carbon_kg", Num(20))>>)>>))>>)

\* texts that are no JSON at all, with and without braces
ProseTexts ==
    {<<>>,
     <<Word("Sorry")>>,
     <<Word("Sure"), Punct("["), NumTok(1), Punct("]")>>,
     <<Punct("}"), Word("or"), Punct("{")>>,
     <<Punct("{"), Word("oops"), Punct("}")>>,
     <<Punct("{"), StrTok("dish")>>,
     <<Word("Sure"), Punct("}")>>,
     Encode(Sample) \o Encode(Sample),
     <<Punct("{")>> \o Encode(Sample),
     <<Word("a"), Punct("{"), Word("b")>> \o Encode(Sample) \o <<Word("c")>>,
     <<Punct("{"), StrTok("dish"), Punct(":"), StrTok("Pasta"), Punct(","),
       StrTok("dish"), Punct(":"), StrTok("Stew"), Punct("}")>>}

\* every text the upstream model returns: an object alone or inside prose,
\* a JSON text that is no object, or no JSON
Texts ==
    {Encode(o) : o \in ObjectValues}
    \cup {<<Word("Sure")>> \o Encode(o) \o <<Word("Enjoy")>> : o \in ProseObjects}
    \cup {Encode(x) : x \in ScalarValues}
    \cup ProseTexts

NoUpstream == [kind |-> "none", err |-> "", hasText |-> FALSE, text |-> <<>>]
Raised(e) == [kind |-> "raised", err |-> e, hasText |-> FALSE, text |-> <<>>]
Returned(has, text) == [kind |-> "returned", err |-> "", hasText |-> has, text |-> text]

\* what one generate_content call can do: raise, or return a response whose
\* text attribute is a text or None
UpstreamOutcomes ==
    {Raised(e) : e \in UpstreamErrors}
    \cup {Returned(TRUE, t) : t \in Texts}
    \cup {Returned(FALSE, <<>>)}

---------------------------------------------------------------------------
(* Responses *)

NoBody == EstimateOut("", 0, <<>>)
NoResp == [status |-> 0, detail |-> "", body |-> NoBody]

\* raise HTTPException(status_code=..., detail=...)
HTTPException(status_code, detail) ==
    [status |-> status_code, detail |-> detail, body |-> NoBody]

\* a returned EstimateOut: FastAPI answers 200 with it as the body
Ok200(body) == [status |-> 200, detail |-> "", body |-> body]

NotConfigured ==
    "Gemini client not configured. Ensure GEMINI_API_KEY and google-generativeai are set."

---------------------------------------------------------------------------
(* configure_gemini (main.py:34-44), run once at import (main.py:91) *)

configure_gemini(api_key, genai, ctor_ok) ==
    IF api_key = "" \/ ~genai THEN "null"
    ELSE IF ctor_ok THEN "handle" ELSE "null"

ApiKeys == {"", "k3y"}

Init ==
    /\ \E api_key \in ApiKeys, genai \in BOOLEAN, ctor_ok \in BOOLEAN :
          model = configure_gemini(api_key, genai, ctor_ok)
    /\ pc = "idle"
    /\ endpoint = "none"
    /\ data = <<>>
    /\ content = <<>>
    /\ dish = ""
    /\ calls = 0
    /\ upstream = NoUpstream
    /\ resp = NoResp

---------------------------------------------------------------------------
(* str.strip() on the characters of a dish *)

IsSpace(c) == c = " "

RECURSIVE LStrip(_)
LStrip(s) == IF s # <<>> /\ IsSpace(s[1]) THEN LStrip(Tail(s)) ELSE s

RECURSIVE RStrip(_)
RStrip(s) ==
    IF s # <<>> /\ IsSpace(s[Len(s)]) THEN RStrip(SubSeq(s, 1, Len(s) - 1)) ELSE s

RECURSIVE Chars(_)
\* the string made of the characters s
Chars(s) == IF s = <<>> THEN "" ELSE s[1] \o Chars(Tail(s))

\* variant with a slip: the dish is tested without being stripped
strip_omitted(s) == Chars(s)

strip(s) == Chars(RStrip(LStrip(s)))

---------------------------------------------------------------------------
(* The steps of a handler.  Each yields where the request goes next and   *)
(* the response, if the step ends the request.                            *)

Continue(next) == [pc |-> next, resp |-> NoResp]
End(response) == [pc |-> "done", resp |-> response]

\* main.py:115-117: dish = data.dish.strip(); if not dish: raise 400
ValidateDish(stripped) ==
    IF stripped = ""
    THEN End(HTTPException(400, "'dish' must be a non-empty string"))
    ELSE Continue("gateway")

\* main.py:157-159: content = await image.read(); if not content: raise 400
ValidateContent(bytes) ==
    IF bytes = <<>>
    THEN End(HTTPException(400, "Empty image upload"))
    ELSE Continue("gateway")

\* variant with a slip: the handle is used without being tested
CheckModel_omitted(handle) == Continue("invoke")

\* main.py:119-120 and 161-162: if model is None: raise 500
CheckModel(handle) ==
    IF handle = "null" THEN End(HTTPException(500, NotConfigured))
    ELSE Continue("invoke")

\* variant with a slip: the 502 does not carry the error's text
ModelError_no_text(e) == HTTPException(502, "Model error")

\* main.py:140-141 and 187-188: except Exception as e: raise 502.  Nothing
\* in the try block raises an HTTPException, so the clause before it
\* (main.py:138-139) never applies.
ModelError(e) == HTTPException(502, "Model error: " \o e)

\* variant with a slip: a failed call is tried again
OnUpstreamError_retry(e) == Continue("invoke")

\* generate_content raised: the except clause ends the request
OnUpstreamError(e) == End(ModelError(e))

Respond(r) == IF r.ok THEN Ok200(r.val) ELSE ModelError(r.err)

\* the rest of the try block once generate_content has returned
Finish(response, fallbackDish) == Respond(Normalize(response, fallbackDish))

\* the try block (main.py:123-141, 165-188) given what the call did
TryBlock(out, fallbackDish) ==
    IF out.kind = "raised" THEN OnUpstreamError(out.err)
    ELSE End(Finish(out, fallbackDish))

UploadedDish == "Uploaded Dish"

---------------------------------------------------------------------------
(* Actions *)

\* POST /estimate arrives with body {"dish": d}
ReceiveText(d) ==
    /\ pc = "idle"
    /\ pc' = "validate"
    /\ endpoint' = "text"
    /\ data' = d
    /\ UNCHANGED <<model, content, dish, calls, upstream, resp>>

\* POST /estimate/image arrives; the upload is read whole
ReceiveImage(bytes) ==
    /\ pc = "idle"
    /\ pc' = "validate"
    /\ endpoint' = "image"
    /\ content' = bytes
    /\ UNCHANGED <<model, data, dish, calls, upstream, resp>>

ValidateText ==
    /\ pc = "validate" /\ endpoint = "text"
    /\ dish' = strip(data)
    /\ pc' = ValidateDish(strip(data)).pc
    /\ resp' = ValidateDish(strip(data)).resp
    /\ UNCHANGED <<model, endpoint, data, content, calls, upstream>>

ValidateImage ==
    /\ pc = "validate" /\ endpoint = "image"
    /\ pc' = ValidateContent(content).pc
    /\ resp' = ValidateContent(content).resp
    /\ UNCHANGED <<model, endpoint, data, content, dish, calls, upstream>>

CheckGateway ==
    /\ pc = "gateway"
    /\ pc' = CheckModel(model).pc
    /\ resp' = CheckModel(model).resp
    /\ UNCHANGED <<model, endpoint, data, content, dish, calls, upstream>>

\* the try block of estimate_text: the one generate_content call, then the
\* normalisation of its output or the except clause
InvokeText ==
    /\ pc = "invoke" /\ endpoint = "text"
    /\ \E out \in UpstreamOutcomes :
          /\ upstream' = out
          /\ calls' = calls + 1
          /\ \E step \in {TryBlock(out, dish)} :
                pc' = step.pc /\ resp' = step.resp
    /\ UNCHANGED <<model, endpoint, data, content, dish>>

\* the try block of estimate_image
InvokeImage ==
    /\ pc = "invoke" /\ endpoint = "image"
    /\ \E out \in UpstreamOutcomes :
          /\ upstream' = out
          /\ calls' = calls + 1
          /\ \E step \in {TryBlock(out, UploadedDish)} :
                pc' = step.pc /\ resp' = step.resp
    /\ UNCHANGED <<model, endpoint, data, content, dish>>

\* the response is sent and everything but the handle is discarded
Complete ==
    /\ pc = "done"
    /\ pc' = "idle"
    /\ endpoint' = "none"
    /\ data' = <<>>
    /\ content' = <<>>
    /\ dish' = ""
    /\ calls' = 0
    /\ upstream' = NoUpstream
    /\ resp' = NoResp
    /\ UNCHANGED model

Next ==
    \/ \E d \in DishInputs : ReceiveText(d)
    \/ \E bytes \in ImageInputs : ReceiveImage(bytes)
    \/ ValidateText
    \/ ValidateImage
    \/ CheckGateway
    \/ InvokeText
    \/ InvokeImage
    \/ Complete

Spec == Init /\ [][Next]_vars

---------------------------------------------------------------------------
(* Vocabulary of the properties *)

Done == pc = "done"

\* the request in hand fails its handler's validation: a dish name of
\* nothing but whitespace, or an upload of no bytes
FailsValidation ==
    \/ endpoint = "text" /\ \A i \in 1..Len(data) : data[i] = " "
    \/ endpoint = "image" /\ Len(content) = 0

PassesValidation ==
    \/ endpoint = "text" /\ \E i \in 1..Len(data) : data[i] # " "
    \/ endpoint = "image" /\ Len(content) > 0

\* the upstream call returned and the request is answered
Answered == Done /\ upstream.kind = "returned"

FallbackDish == IF endpoint = "text" THEN dish ELSE UploadedDish

\* the object the normalisation works on
TheParsed == Parsed(ResponseText(upstream), FallbackDish)

IsObject(p) == p.t = "obj"

HasTotal(p) == HasKey(p, "estimated_carbon_kg")
RawTotal(p) == DictGet(p, "estimated_carbon_kg", Null)
RawIngredients(p) == DictGet(p, "ingredients", Null)

\* p is an object whose ingredients value is a list
IngredientsIsList(p) ==
    IsObject(p) /\ HasKey(p, "ingredients") /\ RawIngredients(p).t = "list"

IsMapping(e) == e.t = "obj"

\* the entries of the ingredients list that are mappings, in order
Mappings(p) == SelectSeq(RawIngredients(p).v, IsMapping)

\* float() cannot convert the value
Unconvertible(val) == ~float(val).ok

\* some mapping entry carries a carbon_kg that float() cannot convert
BadIngredientCarbon(ms) ==
    \E i \in 1..Len(ms) :
        HasKey(ms[i], "carbon_kg")
            /\ Unconvertible(DictGet(ms[i], "carbon_kg", Null))

\* some mapping entry carries a carbon_kg of null
NullIngredientCarbon(ms) ==
    \E i \in 1..Len(ms) :
        HasKey(ms[i], "carbon_kg") /\ DictGet(ms[i], "carbon_kg", Num(0)).t = "null"

\* the top-level total is present, not null, and float() cannot convert it
BadTotal(p) ==
    HasTotal(p) /\ RawTotal(p).t # "null" /\ Unconvertible(RawTotal(p))

\* h hundredths is s eighths rounded to 2 decimals: within half a hundredth
RoundedTo2(h, s) == Abs(8 * h - 100 * s) <= 4

ResultSum == sum_carbon(resp.body.ingredients)

NoBraces(text) ==
    \A i \in 1..Len(text) : ~IsPunct(text[i], "{") /\ ~IsPunct(text[i], "}")

\* the result's ingredients are the mappings ms, one for one and in order,
\* with the defaults for the keys a mapping lacks
KeptInOrder(ms) ==
    /\ Len(resp.body.ingredients) = Len(ms)
    /\ \A i \in 1..Len(ms) :
          /\ resp.body.ingredients[i].name =
                IF HasKey(ms[i], "name")
                THEN str(DictGet(ms[i], "name", Null))
                ELSE "Unknown"
          /\ resp.body.ingredients[i].carbon_kg =
                IF HasKey(ms[i], "carbon_kg")
                THEN float(DictGet(ms[i], "carbon_kg", Null)).val
                ELSE 0

---------------------------------------------------------------------------
(* C1: a request that fails validation never gets past the validation    *)
(* step: it ends with a 400 response, with or without a model handle.    *)
C1_InvalidAlways400 ==
    (FailsValidation /\ pc # "validate") => (Done /\ resp.status = 400)

\* a whitespace-only dish answered 400 although the handle is missing
C1_Witness ==
    /\ Done /\ endpoint = "text" /\ Len(data) > 0 /\ FailsValidation
    /\ model = "null" /\ resp.status = 400

(* C2: with the handle null, a request that passes validation ends with  *)
(* the 500 misconfiguration response and no upstream call is made.       *)
C2_NullHandle500 ==
    (model = "null" /\ PassesValidation) =>
        /\ calls = 0 /\ upstream = NoUpstream
        /\ pc \in {"validate", "gateway", "done"}
        /\ Done => (resp.status = 500 /\ resp.detail = NotConfigured)

C2_Witness ==
    /\ Done /\ model = "null" /\ endpoint = "image" /\ content # <<>>
    /\ resp.status = 500 /\ calls = 0

(* C3: a request makes at most one upstream call, none when validation   *)
(* rejects it, and a 400 response is never preceded by a call.           *)
C3_AtMostOneCall ==
    /\ calls <= 1
    /\ FailsValidation => calls = 0
    /\ resp.status = 400 => calls = 0
    /\ upstream.kind # "none" => (Done /\ calls = 1)

\* the upstream call failed and the request ended after that one call
C3_Witness ==
    Done /\ upstream.kind = "raised" /\ calls = 1 /\ resp.status = 502

(* C4: a failure raised by the upstream call ends the request with 502,  *)
(* the detail carrying the error's text, and no result body.             *)
C4_UpstreamFailure502 ==
    upstream.kind = "raised" =>
        /\ Done
        /\ resp.status = 502
        /\ resp.detail = "Model error: " \o upstream.err
        /\ resp.body = NoBody

C4_Witness ==
    /\ Done /\ endpoint = "text" /\ upstream.kind = "raised"
    /\ upstream.err = "429 quota exceeded"
    /\ resp.detail = "Model error: 429 quota exceeded"

(* C5 (as claimed): upstream text holding no brace at all always gives   *)
(* the 200 fallback result: the fallback dish, no ingredients, total 0.  *)
C5_NoBracesFallback ==
    (Answered /\ NoBraces(ResponseText(upstream))) =>
        resp = Ok200(EstimateOut(FallbackDish, 0, <<>>))

(* C6: for a parsed object whose ingredients value is a list, the result *)
(* holds exactly the mapping entries in order, a missing name read as    *)
(* "Unknown" and a missing carbon_kg as 0.0; entries that are not        *)
(* mappings are dropped and are never the cause of an error: the only    *)
(* errors are a carbon_kg or a total that float() cannot convert.        *)
C6_MappingsKeptInOrder ==
    Answered =>
        LET p == TheParsed
            ms == Mappings(p)
        IN  IngredientsIsList(p) =>
              /\ resp.status =
                    IF BadIngredientCarbon(ms) \/ BadTotal(p) THEN 502 ELSE 200
              /\ resp.status = 200 => KeptInOrder(ms)

\* a list with an entry that is no mapping and a mapping without a name:
\* the first is dropped, the second kept as "Unknown", the answer is 200
C6_Witness ==
    /\ Answered /\ resp.status = 200
    /\ IngredientsIsList(TheParsed)
    /\ \E i \in 1..Len(RawIngredients(TheParsed).v) :
          ~IsMapping(RawIngredients(TheParsed).v[i])
    /\ \E i \in 1..Len(Mappings(TheParsed)) :
          /\ ~HasKey(Mappings(TheParsed)[i], "name")
          /\ ~HasKey(Mappings(TheParsed)[i], "carbon_kg")
    /\ Len(resp.body.ingredients) = 1
    /\ resp.body.ingredients[1] = [name |-> "Unknown", carbon_kg |-> 0]

(* C7: when the parsed object has no estimated_carbon_kg, the result's   *)
(* total is the sum of the result's ingredients rounded to 2 decimals,   *)
(* and 0.0 when there are no ingredients.                                *)
C7_MissingTotalIsSum ==
    (Answered /\ resp.status = 200) =>
        LET p == TheParsed
        IN  (IsObject(p) /\ ~HasTotal(p)) =>
              /\ RoundedTo2(resp.body.estimated_carbon_kg, ResultSum)
              /\ resp.body.ingredients = <<>> =>
                    resp.body.estimated_carbon_kg = 0

\* 0.125 + 2.5 = 2.625, reported as 2.62
C7_Witness ==
    /\ Answered /\ resp.status = 200
    /\ IsObject(TheParsed) /\ ~HasTotal(TheParsed)
    /\ Len(resp.body.ingredients) = 2 /\ ResultSum = 21
    /\ resp.body.estimated_carbon_kg = 262

(* C8 (as claimed): a falsy total that is present, an explicit 0         *)
(* included, is recomputed as the sum of the ingredients.                *)
C8_FalsyTotalRecomputed ==
    (Answered /\ resp.status = 200) =>
        LET p == TheParsed
        IN  (IsObject(p) /\ HasTotal(p) /\ ~Truthy(RawTotal(p))) =>
              RoundedTo2(resp.body.estimated_carbon_kg, ResultSum)

(* C8 (amended): of the falsy totals only null is treated as a missing   *)
(* total and recomputed from the ingredients; an explicit 0 or false is  *)
(* kept, so the result's total is 0.0 whatever the ingredients sum to;   *)
(* an empty string, list or mapping fails the request with 502.          *)
C8_OnlyNullRecomputed ==
    Answered =>
        LET p == TheParsed
            total == RawTotal(p)
        IN  (IsObject(p) /\ HasTotal(p) /\ ~Truthy(total)) =>
              IF total.t = "null"
              THEN resp.status = 200 =>
                      RoundedTo2(resp.body.estimated_carbon_kg, ResultSum)
              ELSE IF total.t \in {"num", "bool"}
              THEN resp.status = 200 => resp.body.estimated_carbon_kg = 0
              ELSE resp.status = 502

\* an explicit 0 over ingredients that sum to more: the result says 0.0
C8_Witness ==
    /\ Answered /\ resp.status = 200
    /\ IsObject(TheParsed) /\ HasTotal(TheParsed)
    /\ RawTotal(TheParsed) = Num(0)
    /\ ResultSum > 0 /\ resp.body.estimated_carbon_kg = 0

(* C9 (as claimed): an ingredient carbon_kg that is present and cannot   *)
(* be converted fails the request with 502, while a top-level total that *)
(* is present and cannot be converted does not: the answer is 200.       *)
C9_Asymmetric ==
    Answered =>
        LET p == TheParsed
            ms == Mappings(p)
        IN  IngredientsIsList(p) =>
              /\ BadIngredientCarbon(ms) => resp.status = 502
              /\ (~BadIngredientCarbon(ms) /\ HasTotal(p)
                    /\ Unconvertible(RawTotal(p))) => resp.status = 200

(* C9 (amended): both conversions are hard failures: a carbon_kg or a    *)
(* total that is present and that float() cannot convert fails the       *)
(* request with 502.  The one asymmetry is null: on an ingredient it     *)
(* fails the request, as a total it counts as missing (200).             *)
C9_BothHardFailures ==
    Answered =>
        LET p == TheParsed
            ms == Mappings(p)
        IN  IngredientsIsList(p) =>
              /\ BadIngredientCarbon(ms) => resp.status = 502
              /\ BadTotal(p) => resp.status = 502
              /\ NullIngredientCarbon(ms) => resp.status = 502
              /\ (HasTotal(p) /\ RawTotal(p).t = "null"
                    /\ ~BadIngredientCarbon(ms)) => resp.status = 200

\* a total of "abc" over sound ingredients: 502 with float's message
C9_Witness ==
    /\ Answered /\ resp.status = 502
    /\ IngredientsIsList(TheParsed)
    /\ ~BadIngredientCarbon(Mappings(TheParsed))
    /\ Len(Mappings(TheParsed)) > 0
    /\ HasTotal(TheParsed) /\ RawTotal(TheParsed) = Str("abc")
    /\ resp.detail = "Model error: could not convert string to float: 'abc'"

(* C10 (as claimed): an ingredients value that is absent or not a list   *)
(* is read as the empty sequence and is never the cause of an error.     *)
C10_NonListIsEmpty ==
    Answered =>
        LET p == TheParsed
        IN  (IsObject(p) /\ ~IngredientsIsList(p) /\ ~BadTotal(p)) =>
              (resp.status = 200 /\ resp.body.ingredients = <<>>)

====
